---- MODULE Spec2Model ----
(***************************************************************************)
(* A model of py7st2.py: the EMA breakout screener.                        *)
(*                                                                         *)
(* Numbers.  A Python float is modelled as a record                        *)
(*     [k |-> "num" | "nan" | "inf", n, d, e]                              *)
(* "num" stands for the value (n / d) * 10^(-e) with d > 0, gcd(n, d) = 1; *)
(* "inf" carries its sign in n (1 or -1).  Arithmetic is exact (rational): *)
(* the rounding of binary floating point is not modelled.  IEEE rules for  *)
(* NaN and the infinities are modelled.  Signed zero is not.               *)
(* The decimal exponent e is non-zero only for decimal literals handed to  *)
(* price_format and for the "* 100" of the percentage columns; the         *)
(* arithmetic operators below take and return values with e = 0.           *)
(*                                                                         *)
(* Text.  A Python str is a sequence of one-character strings, so that a   *)
(* format is built character by character and two strings compare the way  *)
(* Python compares them (by code point).                                   *)
(***************************************************************************)
EXTENDS Integers, Sequences, FiniteSets, TLC

VARIABLES
    pc,              \* position of the script: idle, start, loop, main, done, raised
    top_usdt_pairs,  \* fetch_and_process_data: the symbols to process
    i,               \* fetch_and_process_data: position of the for loop
    klines,          \* what the klines endpoint answered, per symbol fetched
    coins_data,      \* fetch_and_process_data: the rows collected so far
    result_df,       \* fetch_and_process_data: its return value
    shown,           \* main: what st.dataframe / st.write displayed
    fmt_in,          \* price_format: the argument of the last call
    fmt_out,         \* price_format: the value it returned
    tickers,         \* get_top_500_usdt_pairs_by_volume: the ticker response
    top_out,         \* get_top_500_usdt_pairs_by_volume: the list returned
    ema_in,          \* the close column handed to ewm(...).mean()
    ema_period,      \* the span handed to ewm
    ema_out,         \* the EMA column returned
    now,             \* st.cache_data: the clock, in seconds
    world,           \* what the exchange would answer now
    cache,           \* st.cache_data: entry of each cached function
    pending,         \* st.cache_data: the computation a cache miss started
    last_pass,       \* the last computation of fetch_and_process_data that completed
    last_call        \* the call of fetch_and_process_data that has just returned

vars == <<pc, top_usdt_pairs, i, klines, coins_data, result_df, shown,
          fmt_in, fmt_out, tickers, top_out, ema_in, ema_period, ema_out,
          now, world, cache, pending, last_pass, last_call>>

passVars == <<pc, top_usdt_pairs, i, klines, coins_data, result_df, shown>>
fmtVars == <<fmt_in, fmt_out>>
topVars == <<tickers, top_out>>
emaVars == <<ema_in, ema_period, ema_out>>
cacheVars == <<now, world, cache, pending, last_pass, last_call>>

(***************************************************************************)
(* Floats                                                                  *)
(***************************************************************************)
Abs(x) == IF x < 0 THEN -x ELSE x

RECURSIVE GCD(_, _)
GCD(a, b) == IF b = 0 THEN a ELSE GCD(b, a % b)

\* The float n / d (d # 0), in lowest terms with a positive denominator.
Num(n, d) ==
    LET g == GCD(Abs(n), Abs(d))
        s == IF d < 0 THEN -1 ELSE 1
    IN  [k |-> "num", n |-> s * (n \div g), d |-> Abs(d) \div g, e |-> 0]

Int2F(n) == [k |-> "num", n |-> n, d |-> 1, e |-> 0]
\* The decimal literal m * 10^(-e), e.g. Dec(10001, 5) is 0.10001.
Dec(m, e) == [k |-> "num", n |-> m, d |-> 1, e |-> e]
NaN == [k |-> "nan", n |-> 0, d |-> 1, e |-> 0]
PInf == [k |-> "inf", n |-> 1, d |-> 1, e |-> 0]
NInf == [k |-> "inf", n |-> -1, d |-> 1, e |-> 0]

IsNaN(x) == x.k = "nan"
IsInf(x) == x.k = "inf"
IsNum(x) == x.k = "num"
Sign(x) == IF x.n > 0 THEN 1 ELSE IF x.n < 0 THEN -1 ELSE 0
InfOf(s) == IF s > 0 THEN PInf ELSE NInf

\* x == y and x != y, as IEEE compares (NaN equals nothing).
FEq(x, y) ==
    /\ ~IsNaN(x)
    /\ ~IsNaN(y)
    /\ x.k = y.k
    /\ IF IsInf(x) THEN x.n = y.n ELSE Num(x.n, x.d) = Num(y.n, y.d)
FNe(x, y) == ~FEq(x, y)

\* x > y, as IEEE compares (every comparison with NaN is False).
FGt(x, y) ==
    /\ ~IsNaN(x)
    /\ ~IsNaN(y)
    /\ CASE IsInf(x) /\ IsInf(y) -> x.n > y.n
         [] IsInf(x) -> x.n > 0
         [] IsInf(y) -> y.n < 0
         [] OTHER -> x.n * y.d > y.n * x.d

FNeg(x) == IF IsNaN(x) THEN NaN ELSE [x EXCEPT !.n = -x.n]

FAdd(x, y) ==
    CASE IsNaN(x) \/ IsNaN(y) -> NaN
      [] IsInf(x) /\ IsInf(y) -> IF x.n = y.n THEN x ELSE NaN
      [] IsInf(x) -> x
      [] IsInf(y) -> y
      [] OTHER ->
            LET g == GCD(x.d, y.d)
            IN  Num(x.n * (y.d \div g) + y.n * (x.d \div g), (x.d \div g) * y.d)

FSub(x, y) == FAdd(x, FNeg(y))

FMul(x, y) ==
    CASE IsNaN(x) \/ IsNaN(y) -> NaN
      [] IsInf(x) \/ IsInf(y) ->
            IF Sign(x) = 0 \/ Sign(y) = 0 THEN NaN ELSE InfOf(Sign(x) * Sign(y))
      [] OTHER ->
            LET g1 == GCD(Abs(x.n), y.d)
                g2 == GCD(Abs(y.n), x.d)
            IN  Num((x.n \div g1) * (y.n \div g2), (x.d \div g2) * (y.d \div g1))

\* x / y as numpy divides float64: a division by zero gives inf or nan.
FDiv(x, y) ==
    CASE IsNaN(x) \/ IsNaN(y) -> NaN
      [] IsInf(x) /\ IsInf(y) -> NaN
      [] IsInf(x) -> InfOf(x.n * (IF y.n < 0 THEN -1 ELSE 1))
      [] IsInf(y) -> Int2F(0)
      [] y.n = 0 -> IF x.n = 0 THEN NaN ELSE InfOf(x.n)
      [] OTHER -> FMul(x, Num(y.d, y.n))

\* x * 100: a shift of the decimal point.
FMul100(x) == IF IsNum(x) THEN [x EXCEPT !.e = x.e - 2] ELSE x

\* x > 10^(-p) for p >= 0, without forming 10^p.
RECURSIVE GtScaled(_, _, _)
GtScaled(n, d, j) ==
    \* n / d > 10^(-j), n and d positive
    IF j = 0 THEN n > d
    ELSE IF j > 0 THEN (n > d) \/ GtScaled(n * 10, d, j - 1)
    ELSE (n > d) /\ GtScaled(n, d * 10, j + 1)

GtPow10(x, p) ==
    /\ ~IsNaN(x)
    /\ IF IsInf(x) THEN x.n > 0 ELSE x.n > 0 /\ GtScaled(x.n, x.d, p - x.e)

(***************************************************************************)
(* Text                                                                    *)
(***************************************************************************)
\* Code points of the characters the program's strings are made of.
Ord(c) ==
    CASE c = "%" -> 37 [] c = "," -> 44 [] c = "-" -> 45 [] c = "." -> 46
      [] c = "/" -> 47
      [] c = "0" -> 48 [] c = "1" -> 49 [] c = "2" -> 50 [] c = "3" -> 51
      [] c = "4" -> 52 [] c = "5" -> 53 [] c = "6" -> 54 [] c = "7" -> 55
      [] c = "8" -> 56 [] c = "9" -> 57
      [] c = "A" -> 65 [] c = "B" -> 66 [] c = "C" -> 67 [] c = "D" -> 68
      [] c = "N" -> 78 [] c = "S" -> 83 [] c = "T" -> 84 [] c = "U" -> 85
      [] c = "a" -> 97 [] c = "b" -> 98 [] c = "c" -> 99 [] c = "f" -> 102
      [] c = "i" -> 105 [] c = "n" -> 110 [] c = "x" -> 120

\* s < t as Python compares two str: by code point, a proper prefix first.
RECURSIVE StrLt(_, _)
StrLt(s, t) ==
    IF t = <<>> THEN FALSE
    ELSE IF s = <<>> THEN TRUE
    ELSE IF Head(s) = Head(t) THEN StrLt(Tail(s), Tail(t))
    ELSE Ord(Head(s)) < Ord(Head(t))

StrLe(s, t) == s = t \/ StrLt(s, t)

EndsWith(s, suffix) ==
    /\ Len(s) >= Len(suffix)
    /\ SubSeq(s, Len(s) - Len(suffix) + 1, Len(s)) = suffix

DigitChar(dg) == <<"0", "1", "2", "3", "4", "5", "6", "7", "8", "9">>[dg + 1]

(***************************************************************************)
(* str.format with a fixed number of decimals: '{:.2f}', '{:,.4f}', ...    *)
(***************************************************************************)
RECURSIVE IntDigits(_)
\* The decimal digits of q >= 0, most significant first.
IntDigits(q) == IF q < 10 THEN <<q>> ELSE Append(IntDigits(q \div 10), q % 10)

RECURSIVE FracDigits(_, _, _)
\* The first count digits after the point of r / d (0 <= r < d), and the
\* remainder left after them.
FracDigits(r, d, count) ==
    IF count = 0 THEN [ds |-> <<>>, r |-> r]
    ELSE LET rest == FracDigits((r * 10) % d, d, count - 1)
         IN  [ds |-> <<(r * 10) \div d>> \o rest.ds, r |-> rest.r]

RECURSIVE Zeros(_)
Zeros(count) == IF count <= 0 THEN <<>> ELSE <<0>> \o Zeros(count - 1)

RECURSIVE Increment(_)
\* The digits of the number plus one.
Increment(ds) ==
    IF ds = <<>> THEN <<1>>
    ELSE IF ds[Len(ds)] < 9 THEN [ds EXCEPT ![Len(ds)] = ds[Len(ds)] + 1]
    ELSE Append(Increment(SubSeq(ds, 1, Len(ds) - 1)), 0)

RECURSIVE StripZeros(_)
\* Leading zeros removed, one digit kept.
StripZeros(ds) ==
    IF Len(ds) > 1 /\ ds[1] = 0 THEN StripZeros(Tail(ds)) ELSE ds

RECURSIVE Chars(_)
Chars(ds) == IF ds = <<>> THEN <<>> ELSE <<DigitChar(Head(ds))>> \o Chars(Tail(ds))

RECURSIVE Grouped(_)
\* The ',' option: a separator before every group of three digits.
Grouped(cs) ==
    IF Len(cs) <= 3 THEN cs
    ELSE Grouped(SubSeq(cs, 1, Len(cs) - 3)) \o <<",">> \o SubSeq(cs, Len(cs) - 2, Len(cs))

\* The digits of |x| * 10^digits rounded to an integer (ties to even).
ScaledDigits(x, digits) ==
    LET a == Abs(x.n)
        q0 == a \div x.d
        r0 == a % x.d
        t == digits - x.e
        ids == IntDigits(q0)
    IN  IF t >= 0
        THEN LET fr == FracDigits(r0, x.d, t)
                 kept == ids \o fr.ds
                 up == \/ 2 * fr.r > x.d
                       \/ 2 * fr.r = x.d /\ kept[Len(kept)] % 2 = 1
             IN  IF up THEN Increment(kept) ELSE kept
        ELSE LET padded == Zeros(1 - t - Len(ids)) \o ids
                 cut == Len(padded) + t
                 kept == SubSeq(padded, 1, cut)
                 dropped == SubSeq(padded, cut + 1, Len(padded))
                 rest == \/ r0 # 0
                         \/ \E j \in 2..Len(dropped) : dropped[j] # 0
                 up == \/ dropped[1] > 5
                       \/ dropped[1] = 5 /\ (rest \/ kept[Len(kept)] % 2 = 1)
             IN  IF up THEN Increment(kept) ELSE kept

\* format(x, '.<digits>f') and, with comma, format(x, ',.<digits>f').
FormatFixed(x, digits, comma) ==
    CASE IsNaN(x) -> <<"n", "a", "n">>
      [] IsInf(x) -> IF x.n > 0 THEN <<"i", "n", "f">> ELSE <<"-", "i", "n", "f">>
      [] OTHER ->
            LET sd == ScaledDigits(x, digits)
                all == Zeros(digits + 1 - Len(sd)) \o sd
                ip == Chars(StripZeros(SubSeq(all, 1, Len(all) - digits)))
                fp == Chars(SubSeq(all, Len(all) - digits + 1, Len(all)))
            IN  (IF x.n < 0 THEN <<"-">> ELSE <<>>)
                \o (IF comma THEN Grouped(ip) ELSE ip)
                \o (IF digits > 0 THEN <<".">> \o fp ELSE <<>>)

\* f"{x:.2f}%"
PercentFormat(x) == FormatFixed(x, 2, FALSE) \o <<"%">>

(***************************************************************************)
(* price_format                                                            *)
(***************************************************************************)
\* A value that is no int and no float (None, a str).
NonNumeric == [k |-> "other", n |-> 0, d |-> 1, e |-> 0]

isinstance_number(val) == val.k \in {"num", "nan", "inf"}

price_format(val) ==
    IF isinstance_number(val)
    THEN IF GtPow10(val, 1) THEN FormatFixed(val, 2, TRUE)
         ELSE IF GtPow10(val, 2) THEN FormatFixed(val, 4, TRUE)
         ELSE IF GtPow10(val, 4) THEN FormatFixed(val, 6, TRUE)
         ELSE IF GtPow10(val, 6) THEN FormatFixed(val, 8, TRUE)
         ELSE IF GtPow10(val, 8) THEN FormatFixed(val, 10, TRUE)
         ELSE IF GtPow10(val, 10) THEN FormatFixed(val, 12, TRUE)
         ELSE FormatFixed(val, 15, TRUE)
    ELSE <<"N", "/", "A">>

(***************************************************************************)
(* pd.to_numeric                                                           *)
(***************************************************************************)
\* JSON null, as Python reads it.
None == <<"None">>
\* What float() cannot read.
BadParse == [k |-> "bad", n |-> 0, d |-> 1, e |-> 0]

IsDigit(c) == c \in {"0", "1", "2", "3", "4", "5", "6", "7", "8", "9"}
DigitVal(c) == Ord(c) - 48

RECURSIVE DigitsValue(_, _)
DigitsValue(cs, acc) ==
    IF cs = <<>> THEN acc ELSE DigitsValue(Tail(cs), acc * 10 + DigitVal(Head(cs)))

\* One element of the column: None is missing (NaN), a str is read as a number
\* (a signed integer literal, "inf", "nan"), anything else cannot be read.
ParseFloat(raw) ==
    LET neg == raw # <<>> /\ Head(raw) = "-"
        body == IF neg THEN Tail(raw) ELSE raw
        sgn == IF neg THEN -1 ELSE 1
    IN  CASE raw = None -> NaN
          [] body = <<"i", "n", "f">> -> InfOf(sgn)
          [] body = <<"n", "a", "n">> -> NaN
          [] body # <<>> /\ (\A j \in 1..Len(body) : IsDigit(body[j])) ->
                Int2F(sgn * DigitsValue(body, 0))
          [] OTHER -> BadParse

\* pd.to_numeric(col, errors='coerce'): what cannot be read becomes NaN.
to_numeric_coerce(raw) == IF ParseFloat(raw) = BadParse THEN NaN ELSE ParseFloat(raw)

(***************************************************************************)
(* get_historical_data                                                     *)
(***************************************************************************)
\* pd.DataFrame(): a frame is the sequence of its rows.
EmptyDataFrame == <<>>

\* pd.to_numeric(df['close']) with the default errors='raise'.
to_numeric_raises(rows) == \E j \in 1..Len(rows) : ParseFloat(rows[j].close) = BadParse

\* A call either returns a value or raises: [raised, df].
Returned(df) == [raised |-> FALSE, df |-> df]
Raised == [raised |-> TRUE, df |-> <<>>]

\* The try block: resp is what requests.get(url).json() did: kind "transport"
\* (it raised), "nonlist" (the JSON is no list) or "list" (rows: the candles,
\* each with the raw close and the close_time).
historical_try(resp) ==
    IF resp.kind = "transport" THEN Raised
    ELSE IF resp.kind = "list" /\ Len(resp.rows) > 0
         THEN IF to_numeric_raises(resp.rows)
              THEN Raised
              ELSE Returned([j \in 1..Len(resp.rows) |->
                               [time |-> resp.rows[j].close_time,
                                close |-> ParseFloat(resp.rows[j].close)]])
         ELSE Returned(EmptyDataFrame)

\* get_historical_data without its except clause: what the try block raises
\* reaches the caller.
get_historical_data_no_except(resp) == historical_try(resp)

\* except Exception: return pd.DataFrame()
get_historical_data(resp) ==
    IF historical_try(resp).raised THEN Returned(EmptyDataFrame)
    ELSE historical_try(resp)

(***************************************************************************)
(* Series.ewm(span=period, adjust=False).mean()                            *)
(***************************************************************************)
RECURSIVE ewm_tail(_, _, _, _, _, _)
\* The loop of pandas' ewm over vals[j..]: weighted is the running average,
\* old_wt the weight it carries, nobs the observations seen so far.
ewm_tail(vals, j, weighted, old_wt, nobs, alpha) ==
    IF j > Len(vals) THEN <<>>
    ELSE LET cur == vals[j]
             is_observation == ~IsNaN(cur)
             nobs2 == nobs + (IF is_observation THEN 1 ELSE 0)
             wt == IF ~IsNaN(weighted) THEN FMul(old_wt, FSub(Int2F(1), alpha))
                   ELSE old_wt
             weighted2 ==
                 IF ~IsNaN(weighted)
                 THEN IF is_observation /\ FNe(weighted, cur)
                      THEN FDiv(FAdd(FMul(wt, weighted), FMul(alpha, cur)),
                                FAdd(wt, alpha))
                      ELSE weighted
                 ELSE IF is_observation THEN cur ELSE weighted
             old_wt2 == IF ~IsNaN(weighted) /\ is_observation THEN Int2F(1) ELSE wt
         IN  <<IF nobs2 >= 1 THEN weighted2 ELSE NaN>>
             \o ewm_tail(vals, j + 1, weighted2, old_wt2, nobs2, alpha)

\* ewm(span=...): com = (span - 1) / 2 and alpha = 1 / (1 + com).
ewm_alpha(span) == Num(2, span + 1)

ewm_mean(vals, span) ==
    IF vals = <<>> THEN <<>>
    ELSE LET alpha == ewm_alpha(span)
             nobs == IF IsNaN(vals[1]) THEN 0 ELSE 1
         IN  <<IF nobs >= 1 THEN vals[1] ELSE NaN>>
             \o ewm_tail(vals, 2, vals[1], Int2F(1), nobs, alpha)

(***************************************************************************)
(* calculate_ema_and_breakout, calculate_ema102_and_breakout               *)
(***************************************************************************)
closes_of(df) == [j \in 1..Len(df) |-> df[j].close]

\* df.dropna(subset=['close', 'EMA']): the rows where neither is NaN.
dropna_keeps(row) == ~IsNaN(row.close) /\ ~IsNaN(row.EMA)
dropna(df) == SelectSeq(df, dropna_keeps)

\* 'breakup' if row['close'] > row['EMA'] else 'breakdown'
\* The comparison written with >= in place of >.
status_of_ge(close, ema) == IF FGt(close, ema) \/ FEq(close, ema) THEN "breakup" ELSE "breakdown"

status_of(close, ema) == IF FGt(close, ema) THEN "breakup" ELSE "breakdown"

\* (close - EMA) / EMA * 100, then f"{x:.2f}%"
difference_of(close, ema) == PercentFormat(FMul100(FDiv(FSub(close, ema), ema)))

\* Lines 81 / 90: the EMA column joined to the frame.
with_ema(df, ema) ==
    [j \in 1..Len(df) |-> [time |-> df[j].time, close |-> df[j].close, EMA |-> ema[j]]]

\* Lines 83-85 / 92-94 for one row.
classify_row(row) ==
    [time |-> row.time, close |-> row.close, EMA |-> row.EMA,
     difference |-> difference_of(row.close, row.EMA),
     status |-> status_of(row.close, row.EMA)]

classify(df) == [j \in 1..Len(df) |-> classify_row(df[j])]

\* The body the two functions share; the columns EMA_34 / EMA_102,
\* difference_34 / difference_102 and status_34 / status_102 are EMA,
\* difference and status here.
ema_and_breakout(df, period) ==
    classify(dropna(with_ema(df, ewm_mean(closes_of(df), period))))

Period34 == 34
Period102 == 102
calculate_ema_and_breakout(df) == ema_and_breakout(df, Period34)
calculate_ema102_and_breakout(df) == ema_and_breakout(df, Period102)

(***************************************************************************)
(* get_top_500_usdt_pairs_by_volume                                        *)
(***************************************************************************)
\* head(500): the size of the universe, scaled down so that a ticker list
\* longer than it can be enumerated.
TopN == 2

USDT == <<"U", "S", "D", "T">>

\* df[df['symbol'].str.endswith('USDT')]
endswith_USDT(item) == EndsWith(item.symbol, USDT)

Injective(p) == \A a, b \in DOMAIN p : p[a] = p[b] => a = b

\* The sort with ascending left at its default of True.
sort_values_ascending(df) ==
    LET n == Len(df)
        vol(j) == to_numeric_coerce(df[j].volume)
    IN  {[a \in 1..n |-> df[p[a]]] :
            p \in {q \in [1..n -> 1..n] :
                     /\ Injective(q)
                     /\ \A a, b \in 1..n :
                          a < b =>
                            /\ IsNaN(vol(q[a])) => IsNaN(vol(q[b])) /\ q[a] < q[b]
                            /\ ~IsNaN(vol(q[b])) => ~FGt(vol(q[a]), vol(q[b]))}}

\* The orders sort_values('volume', ascending=False) can leave the rows in:
\* volumes descending, rows of equal volume in any order (quicksort is not
\* stable), the NaN volumes last (na_position='last') in their original order.
sort_values_volume(df) ==
    LET n == Len(df)
        vol(j) == to_numeric_coerce(df[j].volume)
    IN  {[a \in 1..n |-> df[p[a]]] :
            p \in {q \in [1..n -> 1..n] :
                     /\ Injective(q)
                     /\ \A a, b \in 1..n :
                          a < b =>
                            /\ IsNaN(vol(q[a])) => IsNaN(vol(q[b])) /\ q[a] < q[b]
                            /\ ~IsNaN(vol(q[b])) => ~FGt(vol(q[b]), vol(q[a]))}}

head(df, count) == SubSeq(df, 1, IF Len(df) < count THEN Len(df) ELSE count)

symbols_of(df) == [j \in 1..Len(df) |-> df[j].symbol]

\* resp is what requests.get(...).json() did: kind "transport" (it raised),
\* "nonlist", or "list" with items, each a dict (symbol, volume) or not a
\* dict.  The result is the set of lists the call can return.
get_top_500_usdt_pairs_by_volume(resp) ==
    IF resp.kind = "transport" THEN {<<>>}
    ELSE IF resp.kind = "list"
         THEN IF \A j \in 1..Len(resp.items) : resp.items[j].dict
              THEN {symbols_of(head(sorted, TopN)) :
                        sorted \in sort_values_volume(SelectSeq(resp.items, endswith_USDT))}
              ELSE {<<>>}
         ELSE {<<>>}

(***************************************************************************)
(* fetch_and_process_data                                                  *)
(***************************************************************************)
notna(x) == ~IsNaN(x)

\* Lines 117-125: the row appended.
coin_row(symbol, latest_34, latest_102) ==
    [COIN |-> symbol,
     CLOSE |-> latest_34.close,
     STATUS34 |-> latest_34.status,
     DIFF34 |-> latest_34.difference,
     LINE102 |-> latest_102.EMA,
     STATUS102 |-> latest_102.status,
     DIFF102 |-> latest_102.difference]

\* Lines 113-125: latest_34 = df_ema34.iloc[-1], latest_102 = df_ema102.iloc[-1]
latest_rows(symbol, latest_34, latest_102) ==
    IF notna(latest_34.EMA) /\ notna(latest_102.EMA)
    THEN <<coin_row(symbol, latest_34, latest_102)>>
    ELSE <<>>

iloc_last(df) == df[Len(df)]

\* Lines 112-125: the rows the two frames add to coins_data (one or none).
rows_of_frames(symbol, df_ema34, df_ema102) ==
    IF df_ema34 # EmptyDataFrame /\ df_ema102 # EmptyDataFrame
    THEN latest_rows(symbol, iloc_last(df_ema34), iloc_last(df_ema102))
    ELSE <<>>

\* Lines 109-125: the rows one symbol adds to coins_data.
rows_of_symbol(symbol, df) ==
    rows_of_frames(symbol, calculate_ema_and_breakout(df), calculate_ema102_and_breakout(df))

\* Lines 128-141: the frame returned, CLOSE and LINE102 formatted.
build_result(coins) ==
    IF coins = <<>> THEN EmptyDataFrame
    ELSE [j \in 1..Len(coins) |->
             [coins[j] EXCEPT !.CLOSE = price_format(coins[j].CLOSE),
                              !.LINE102 = price_format(coins[j].LINE102)]]

(***************************************************************************)
(* main                                                                    *)
(***************************************************************************)
is_breakup(row) == row.STATUS34 = "breakup"

\* The key sort_values(by='%DIFF34') orders by: the column holds str.
diff34_le(r1, r2) == StrLe(r1.DIFF34, r2.DIFF34)

\* The orders sort_values(by='%DIFF34') can leave the rows in.
sort_values_diff34(df) ==
    LET n == Len(df)
    IN  {[a \in 1..n |-> df[p[a]]] :
            p \in {q \in [1..n -> 1..n] :
                     /\ Injective(q)
                     /\ \A a, b \in 1..n : a < b => diff34_le(df[q[a]], df[q[b]])}}

(***************************************************************************)
(* One pass of the script: main -> fetch_and_process_data -> display       *)
(***************************************************************************)
\* The longest candle list the klines endpoint answers with.
MaxLen == 2

AUSDT == <<"A", "U", "S", "D", "T">>
BUSDT == <<"B", "U", "S", "D", "T">>
CUSDT == <<"C", "U", "S", "D", "T">>
USDTC == <<"U", "S", "D", "T", "C">>

\* The raw 'close' fields a candle can carry: numbers as str, a str that is
\* no number, JSON null.
RawCloses == {<<"1", "0">>, <<"3", "3">>, <<"-", "2">>, <<"a", "b", "c">>, None}

CandleRows(cs) == [j \in 1..Len(cs) |-> [close_time |-> j, close |-> cs[j]]]

\* Further lists: a small rise, an infinite close, the two EMAs on opposite
\* sides of the close, a missing close between two others.
LongerCloseSeqs ==
    {<<<<"1", "0">>, <<"1", "1">>>>,
     <<<<"i", "n", "f">>>>,
     <<<<"1", "0">>, <<"3", "3">>, <<"1", "1">>>>,
     <<<<"1", "0">>, None, <<"1", "1">>>>}

CloseSeqs == UNION {[1..n -> RawCloses] : n \in 0..MaxLen} \cup LongerCloseSeqs

\* Everything requests.get(url).json() can do for one symbol.
KlineResponses ==
    {[kind |-> "transport", rows |-> <<>>], [kind |-> "nonlist", rows |-> <<>>]}
    \cup {[kind |-> "list", rows |-> CandleRows(cs)] : cs \in CloseSeqs}

NotFetched == [kind |-> "unfetched", rows |-> <<>>]

Ticker(symbol, volume) == [dict |-> TRUE, symbol |-> symbol, volume |-> volume]
NotADict == [dict |-> FALSE, symbol |-> <<>>, volume |-> <<>>]

\* Ticker responses of the pass: failures, and lists that select the two
\* symbols in either order, one of them, one of them twice, or none.
PassTickerResponses ==
    {[kind |-> "transport", items |-> <<>>],
     [kind |-> "nonlist", items |-> <<>>],
     [kind |-> "list", items |-> <<>>],
     [kind |-> "list", items |-> <<Ticker(AUSDT, <<"1">>), NotADict>>],
     [kind |-> "list", items |-> <<Ticker(AUSDT, <<"2">>), Ticker(BUSDT, <<"1">>)>>],
     [kind |-> "list", items |-> <<Ticker(AUSDT, <<"1">>), Ticker(USDTC, <<"9">>),
                                    Ticker(BUSDT, <<"2">>)>>],
     [kind |-> "list", items |-> <<Ticker(BUSDT, <<"x">>)>>],
     [kind |-> "list", items |-> <<Ticker(AUSDT, <<"1">>), Ticker(AUSDT, <<"1">>)>>]}

PassSymbols == {AUSDT, BUSDT}

NothingShown == [kind |-> "none", rows |-> <<>>]

IdleFmt == fmt_in = NonNumeric /\ fmt_out = <<>>
NotCalled == [called |-> FALSE, pairs |-> <<>>]
IdleTop == tickers = [kind |-> "nonlist", items |-> <<>>] /\ top_out = NotCalled
IdleEma == ema_in = <<>> /\ ema_period = 1 /\ ema_out = <<>>
IdleCache ==
    /\ now = 0
    /\ world = 1
    /\ cache = <<>>
    /\ pending = <<>>
    /\ last_pass = <<>>
    /\ last_call = <<>>
IdlePass ==
    /\ pc = "idle"
    /\ top_usdt_pairs = <<>>
    /\ i = 1
    /\ klines = [s \in PassSymbols |-> NotFetched]
    /\ coins_data = <<>>
    /\ result_df = <<>>
    /\ shown = NothingShown

Init ==
    /\ pc = "start"
    /\ top_usdt_pairs = <<>>
    /\ i = 1
    /\ klines = [s \in PassSymbols |-> NotFetched]
    /\ coins_data = <<>>
    /\ result_df = <<>>
    /\ shown = NothingShown
    /\ IdleFmt /\ IdleTop /\ IdleEma /\ IdleCache

\* Line 99: top_usdt_pairs = get_top_500_usdt_pairs_by_volume()
GetTopPairs ==
    /\ pc = "start"
    /\ \E resp \in PassTickerResponses :
         \E pairs \in get_top_500_usdt_pairs_by_volume(resp) :
            top_usdt_pairs' = pairs
    /\ pc' = "loop"
    /\ i' = 1
    /\ UNCHANGED <<klines, coins_data, result_df, shown>>
    /\ UNCHANGED <<fmtVars, topVars, emaVars, cacheVars>>

\* Lines 102-125: one iteration of the for loop.  A symbol fetched before in
\* the pass is answered from the cache of get_historical_data.
FetchSymbol ==
    /\ pc = "loop"
    /\ i <= Len(top_usdt_pairs)
    /\ LET symbol == top_usdt_pairs[i]
       IN  \E resp \in (IF klines[symbol] = NotFetched THEN KlineResponses
                        ELSE {klines[symbol]}) :
              LET out == get_historical_data(resp)
              IN  /\ klines' = [klines EXCEPT ![symbol] = resp]
                  /\ IF out.raised
                     THEN pc' = "raised" /\ UNCHANGED <<i, coins_data>>
                     ELSE /\ pc' = pc
                          /\ i' = i + 1
                          /\ coins_data' =
                                IF out.df = EmptyDataFrame THEN coins_data
                                ELSE coins_data \o rows_of_symbol(symbol, out.df)
    /\ UNCHANGED <<top_usdt_pairs, result_df, shown>>
    /\ UNCHANGED <<fmtVars, topVars, emaVars, cacheVars>>

\* Lines 127-141: the loop is over, the frame is built and returned.
ReturnResult ==
    /\ pc = "loop"
    /\ i > Len(top_usdt_pairs)
    /\ result_df' = build_result(coins_data)
    /\ pc' = "main"
    /\ UNCHANGED <<top_usdt_pairs, i, klines, coins_data, shown>>
    /\ UNCHANGED <<fmtVars, topVars, emaVars, cacheVars>>

\* Lines 172-179: main filters, sorts and displays.
Display ==
    /\ pc = "main"
    /\ IF result_df # EmptyDataFrame
       THEN \E sorted_breakup_df \in sort_values_diff34(SelectSeq(result_df, is_breakup)) :
               shown' = [kind |-> "dataframe", rows |-> sorted_breakup_df]
       ELSE shown' = [kind |-> "nodata", rows |-> <<>>]
    /\ pc' = "done"
    /\ UNCHANGED <<top_usdt_pairs, i, klines, coins_data, result_df>>
    /\ UNCHANGED <<fmtVars, topVars, emaVars, cacheVars>>

Next == GetTopPairs \/ FetchSymbol \/ ReturnResult \/ Display

Spec == Init /\ [][Next]_vars

(***************************************************************************)
(* price_format, called on its own                                         *)
(***************************************************************************)
\* Decimal literals m * 10^(-e) for e up to MaxDecimals.
MaxDecimals == 11

FmtMantissas == {-5, 0, 1, 5, 10001, 123456789}

FmtInputs ==
    {Dec(m, e) : m \in FmtMantissas, e \in 0..MaxDecimals}
    \cup {NaN, PInf, NInf, NonNumeric}

InitFmt ==
    /\ fmt_in \in FmtInputs
    /\ fmt_out = <<>>
    /\ IdlePass /\ IdleTop /\ IdleEma /\ IdleCache

CallPriceFormat ==
    /\ fmt_out = <<>>
    /\ fmt_out' = price_format(fmt_in)
    /\ UNCHANGED <<fmt_in, passVars, topVars, emaVars, cacheVars>>

NextFmt == CallPriceFormat

SpecFmt == InitFmt /\ [][NextFmt]_vars

(***************************************************************************)
(* get_top_500_usdt_pairs_by_volume, called on its own                     *)
(***************************************************************************)
\* The longest ticker list the ticker endpoint answers with.
MaxTickers == 3

TickerItems ==
    {Ticker(sym, vol) : sym \in {AUSDT, BUSDT, CUSDT, USDTC},
                        vol \in {<<"1">>, <<"2">>, <<"x">>}}
    \cup {NotADict}

TickerResponses ==
    {[kind |-> "transport", items |-> <<>>], [kind |-> "nonlist", items |-> <<>>]}
    \cup {[kind |-> "list", items |-> items] :
             items \in UNION {[1..n -> TickerItems] : n \in 0..MaxTickers}}

InitTop ==
    /\ tickers \in TickerResponses
    /\ top_out = NotCalled
    /\ IdlePass /\ IdleFmt /\ IdleEma /\ IdleCache

CallGetTop ==
    /\ ~top_out.called
    /\ \E pairs \in get_top_500_usdt_pairs_by_volume(tickers) :
          top_out' = [called |-> TRUE, pairs |-> pairs]
    /\ UNCHANGED <<tickers, passVars, fmtVars, emaVars, cacheVars>>

NextTop == CallGetTop

SpecTop == InitTop /\ [][NextTop]_vars

(***************************************************************************)
(* calculate_ema_and_breakout(df, period), called on its own               *)
(***************************************************************************)
\* The longest close column.
MaxEmaLen == 3

EmaCloses == {NaN, PInf, Int2F(-2), Int2F(10), Int2F(11), Int2F(33)}
EmaPeriods == {1, 2, Period34, Period102}

frame_of(closes) == [j \in 1..Len(closes) |-> [time |-> j, close |-> closes[j]]]

InitEma ==
    /\ ema_in \in UNION {[1..n -> EmaCloses] : n \in 1..MaxEmaLen}
    /\ ema_period \in EmaPeriods
    /\ ema_out = <<>>
    /\ IdlePass /\ IdleFmt /\ IdleTop /\ IdleCache

CallEma ==
    /\ ema_out = <<>>
    /\ ema_out' = <<ema_and_breakout(frame_of(ema_in), ema_period)>>
    /\ UNCHANGED <<ema_in, ema_period, passVars, fmtVars, topVars, cacheVars>>

NextEma == CallEma

SpecEma == InitEma /\ [][NextEma]_vars

(***************************************************************************)
(* @st.cache_data(ttl=86400): calls of fetch_and_process_data over time    *)
(***************************************************************************)
\* ttl=86400 on the three decorators, in seconds.
TTL == 86400

\* The days the clock runs for.
MaxDays == 2
MaxClock == MaxDays * TTL

\* The clock advances by half a TTL or one second less, so that a call can
\* fall one second before an entry expires and at the second it expires.
Deltas == {TTL \div 2 - 1, TTL \div 2}

\* A cache that keeps no empty result.
cache_write_nonempty(value, t) ==
    IF value = <<>> THEN <<>> ELSE <<[at |-> t, value |-> value]>>

\* A cache slot is <<>> or holds one entry, stamped when it was written.
cache_write(value, t) == <<[at |-> t, value |-> value]>>

\* An entry is served while its age is below the ttl.
cache_hit(slot, t) == slot # <<>> /\ t < slot[1].at + TTL

\* One cache per decorated function; get_historical_data is keyed by symbol.
EmptyCache == [outer |-> <<>>, top |-> <<>>, hist |-> [s \in PassSymbols |-> <<>>]]

Candles(cs) == [kind |-> "list", rows |-> CandleRows(cs)]

\* What the exchange answers at a given time: the ticker response and the
\* candle response of each symbol.
Worlds ==
    <<[tickers |-> [kind |-> "list",
                    items |-> <<Ticker(AUSDT, <<"2">>), Ticker(BUSDT, <<"1">>)>>],
       klines |-> [s \in PassSymbols |->
                      IF s = AUSDT THEN Candles(<<<<"1", "0">>, <<"1", "1">>>>)
                      ELSE Candles(<<<<"1", "0">>, <<"3", "3">>>>)]],
      [tickers |-> [kind |-> "transport", items |-> <<>>],
       klines |-> [s \in PassSymbols |-> Candles(<<<<"1", "0">>, <<"1", "1">>>>)]],
      [tickers |-> [kind |-> "list",
                    items |-> <<Ticker(AUSDT, <<"1">>), Ticker(AUSDT, <<"1">>)>>],
       klines |-> [s \in PassSymbols |-> [kind |-> "transport", rows |-> <<>>]]]>>

InitCache ==
    /\ now = 0
    /\ world \in DOMAIN Worlds
    /\ cache = EmptyCache
    /\ pending = <<>>
    /\ last_pass = <<>>
    /\ last_call = <<>>
    /\ IdlePass /\ IdleFmt /\ IdleTop /\ IdleEma

\* The entries of a cache still served at time t: an expired entry is
\* dropped when the cache is next used, which no call can tell from its
\* being dropped the moment it expires.
unexpired(slot, t) == IF cache_hit(slot, t) THEN slot ELSE <<>>
expire(c, t) ==
    [outer |-> unexpired(c.outer, t),
     top |-> unexpired(c.top, t),
     hist |-> [s \in PassSymbols |-> unexpired(c.hist[s], t)]]

\* Time passes.
Tick ==
    /\ \E d \in Deltas :
          /\ now + d <= MaxClock
          /\ now' = now + d
          /\ cache' = expire(cache, now + d)
    /\ last_call' = <<>>
    /\ UNCHANGED <<world, pending, last_pass>>
    /\ UNCHANGED <<passVars, fmtVars, topVars, emaVars>>

\* The exchange's data changes.
UpstreamChanges ==
    /\ \E w \in DOMAIN Worlds \ {world} : world' = w
    /\ last_call' = <<>>
    /\ UNCHANGED <<now, cache, pending, last_pass>>
    /\ UNCHANGED <<passVars, fmtVars, topVars, emaVars>>

\* Line 170, fetch_and_process_data() answered from its cache.
CallCached ==
    /\ pc = "idle"
    /\ cache_hit(cache.outer, now)
    /\ result_df' = cache.outer[1].value
    /\ last_call' = <<[at |-> now, table |-> cache.outer[1].value, requests |-> 0,
                       prev |-> last_pass]>>
    /\ UNCHANGED <<now, world, cache, pending, last_pass>>
    /\ UNCHANGED <<pc, top_usdt_pairs, i, klines, coins_data, shown>>
    /\ UNCHANGED <<fmtVars, topVars, emaVars>>

\* Line 170, no fresh entry: the body of fetch_and_process_data starts.  A
\* call that arrives while it runs waits for it and is served its entry.
CallCompute ==
    /\ pc = "idle"
    /\ ~cache_hit(cache.outer, now)
    /\ pc' = "start"
    /\ pending' = <<[at |-> now, requests |-> 0]>>
    /\ last_call' = <<>>
    /\ UNCHANGED <<now, world, cache, last_pass>>
    /\ UNCHANGED <<top_usdt_pairs, i, klines, coins_data, result_df, shown>>
    /\ UNCHANGED <<fmtVars, topVars, emaVars>>

\* Line 99, through the cache of get_top_500_usdt_pairs_by_volume.
CachedGetTop ==
    /\ pc = "start"
    /\ IF cache_hit(cache.top, now)
       THEN /\ top_usdt_pairs' = cache.top[1].value
            /\ UNCHANGED <<cache, pending>>
       ELSE /\ \E pairs \in get_top_500_usdt_pairs_by_volume(Worlds[world].tickers) :
                  /\ top_usdt_pairs' = pairs
                  /\ cache' = [cache EXCEPT !.top = cache_write(pairs, now)]
            /\ pending' = <<[pending[1] EXCEPT !.requests = @ + 1]>>
    /\ pc' = "loop"
    /\ i' = 1
    /\ coins_data' = <<>>
    /\ last_call' = <<>>
    /\ UNCHANGED <<now, world, last_pass>>
    /\ UNCHANGED <<klines, result_df, shown>>
    /\ UNCHANGED <<fmtVars, topVars, emaVars>>

\* The frame added for a symbol, lines 105-125.
rows_of_df(symbol, df) ==
    IF df = EmptyDataFrame THEN <<>> ELSE rows_of_symbol(symbol, df)

\* Line 104: the frame for a symbol, from the cache of get_historical_data or
\* from a request.
frame_through_cache(symbol) ==
    IF cache_hit(cache.hist[symbol], now) THEN cache.hist[symbol][1].value
    ELSE get_historical_data(Worlds[world].klines[symbol]).df

\* Lines 104-125: the frame is written to the cache when it was requested, and
\* its row is collected.
collect_frame(symbol, df) ==
    /\ coins_data' = coins_data \o rows_of_df(symbol, df)
    /\ IF cache_hit(cache.hist[symbol], now)
       THEN UNCHANGED <<cache, pending>>
       ELSE /\ cache' = [cache EXCEPT !.hist[symbol] = cache_write(df, now)]
            /\ pending' = <<[pending[1] EXCEPT !.requests = @ + 1]>>

\* Lines 102-125, one iteration through the cache of get_historical_data.
CachedFetchSymbol ==
    /\ pc = "loop"
    /\ i <= Len(top_usdt_pairs)
    /\ collect_frame(top_usdt_pairs[i], frame_through_cache(top_usdt_pairs[i]))
    /\ i' = i + 1
    /\ last_call' = <<>>
    /\ UNCHANGED <<now, world, last_pass>>
    /\ UNCHANGED <<pc, top_usdt_pairs, klines, result_df, shown>>
    /\ UNCHANGED <<fmtVars, topVars, emaVars>>

\* Line 141 under the decorator: the frame is returned to the caller and
\* written to the cache.
return_frame(result) ==
    /\ result_df' = result
    /\ cache' = [cache EXCEPT !.outer = cache_write(result, now)]
    /\ last_pass' = <<[at |-> now, table |-> result]>>
    /\ last_call' = <<[at |-> pending[1].at, table |-> result,
                       requests |-> pending[1].requests, prev |-> last_pass]>>

\* Lines 127-141: the frame is built, returned and written to the cache.
CachedReturn ==
    /\ pc = "loop"
    /\ i > Len(top_usdt_pairs)
    /\ return_frame(build_result(coins_data))
    /\ pending' = <<>>
    /\ pc' = "idle"
    /\ top_usdt_pairs' = <<>>
    /\ i' = 1
    /\ coins_data' = <<>>
    /\ UNCHANGED <<now, world>>
    /\ UNCHANGED <<klines, shown>>
    /\ UNCHANGED <<fmtVars, topVars, emaVars>>

NextCache ==
    \/ Tick
    \/ UpstreamChanges
    \/ CallCached
    \/ CallCompute
    \/ CachedGetTop
    \/ CachedFetchSymbol
    \/ CachedReturn

SpecCache == InitCache /\ [][NextCache]_vars

(***************************************************************************)
(* Properties of a pass                                                    *)
(***************************************************************************)
\* The frame get_historical_data returned for a symbol of the pass.
frame_of_symbol(symbol) == get_historical_data(klines[symbol]).df

latest_34_of(symbol) == iloc_last(calculate_ema_and_breakout(frame_of_symbol(symbol)))
latest_102_of(symbol) == iloc_last(calculate_ema102_and_breakout(frame_of_symbol(symbol)))

\* The number a '%DIFF' string stands for: "12.34%" is 1234 / 100.
PercentValue(str) ==
    LET body == SubSeq(str, 1, Len(str) - 1)
        neg == Head(body) = "-"
        mag == IF neg THEN Tail(body) ELSE body
        digits == SelectSeq(mag, IsDigit)
    IN  CASE mag = <<"n", "a", "n">> -> NaN
          [] mag = <<"i", "n", "f">> -> InfOf(IF neg THEN -1 ELSE 1)
          [] OTHER -> Num((IF neg THEN -1 ELSE 1) * DigitsValue(digits, 0), 100)

\* C1: the displayed table is in ascending order of the number its '%DIFF34'
\* column stands for: no row is followed by a row with a smaller percentage.
C1_NumericOrder ==
    shown.kind = "dataframe" =>
        \A a \in 1..(Len(shown.rows) - 1) :
            ~FGt(PercentValue(shown.rows[a].DIFF34), PercentValue(shown.rows[a + 1].DIFF34))

\* The rows of coins_data whose close is strictly above the short EMA.
AboveShortEma ==
    {j \in 1..Len(coins_data) :
        FGt(coins_data[j].CLOSE, latest_34_of(coins_data[j].COIN).EMA)}

SameRowsAs(rows, idx) ==
    \E f \in [1..Len(rows) -> idx] :
        /\ Injective(f)
        /\ \A j \in idx : \E a \in 1..Len(rows) : f[a] = j
        /\ \A a \in 1..Len(rows) : rows[a] = result_df[f[a]]

\* C2: once the table is displayed, its rows are exactly the rows of the
\* symbols whose latest close is strictly above their latest 34-period EMA
\* (a close equal to the EMA is left out), whatever their 102-period state.
C2_BreakupMembership ==
    pc = "done" =>
        IF coins_data = <<>> THEN shown.kind = "nodata"
        ELSE shown.kind = "dataframe" /\ SameRowsAs(shown.rows, AboveShortEma)

C2_Witness ==
    /\ pc = "done"
    /\ Len(coins_data) = 2
    /\ Len(shown.rows) = 1
    /\ \E j \in 1..2 :
          /\ FEq(coins_data[j].CLOSE, latest_34_of(coins_data[j].COIN).EMA)
          /\ coins_data[j].STATUS34 = "breakdown"

\* A row left out of the table although its 102-period state is breakup.
C2_WitnessLong ==
    /\ pc = "done"
    /\ shown.kind = "dataframe"
    /\ \E j \in 1..Len(coins_data) :
          /\ coins_data[j].STATUS102 = "breakup"
          /\ j \notin AboveShortEma

\* The fetch of a symbol failed: transport error, no list, an empty list.
FetchFailed(resp) ==
    \/ resp.kind \in {"transport", "nonlist"}
    \/ resp.kind = "list" /\ resp.rows = <<>>

\* The rows a symbol is to add: none when its fetch failed, else the rows its
\* own candles give.
OwnRows(symbol) ==
    IF FetchFailed(klines[symbol]) \/ frame_of_symbol(symbol) = EmptyDataFrame THEN <<>>
    ELSE rows_of_symbol(symbol, frame_of_symbol(symbol))

RECURSIVE RowsUpTo(_)
RowsUpTo(n) == IF n = 0 THEN <<>> ELSE RowsUpTo(n - 1) \o OwnRows(top_usdt_pairs[n])

\* C3: fetch_and_process_data never raises, and the rows it has collected are
\* the rows of the symbols processed so far, each as its own candles give it,
\* with no row for a symbol whose fetch failed: a failed fetch neither stops
\* the loop nor changes the row of another symbol.
C3_FailuresSkipped ==
    /\ pc # "raised"
    /\ pc = "loop" => i <= Len(top_usdt_pairs) + 1 /\ coins_data = RowsUpTo(i - 1)
    /\ pc \in {"main", "done"} => coins_data = RowsUpTo(Len(top_usdt_pairs))

C3_Witness ==
    /\ pc = "done"
    /\ Len(top_usdt_pairs) = 2
    /\ FetchFailed(klines[top_usdt_pairs[1]])
    /\ ~FetchFailed(klines[top_usdt_pairs[2]])
    /\ Len(coins_data) = 1
    /\ coins_data[1].COIN = top_usdt_pairs[2]

Unparseable(raw) == ParseFloat(raw) = BadParse

parseable_candle(row) == ~Unparseable(row.close)

\* C4: for a candle list in which some but not all closes are unparseable,
\* get_historical_data returns the candles with a parseable close.
C4_DropsOnlyBadCandles ==
    \A s \in PassSymbols :
        LET rows == klines[s].rows
        IN  (/\ klines[s].kind = "list"
             /\ \E j \in 1..Len(rows) : Unparseable(rows[j].close)
             /\ \E j \in 1..Len(rows) : ~Unparseable(rows[j].close))
            => LET good == SelectSeq(rows, parseable_candle)
               IN  frame_of_symbol(s) =
                      [j \in 1..Len(good) |->
                          [time |-> good[j].close_time, close |-> ParseFloat(good[j].close)]]

\* C8: every row collected reports the last candle of the fetched series: the
\* 34-period and the 102-period values both come from that candle.
C8_LastCandle ==
    \A j \in 1..Len(coins_data) :
        LET s == coins_data[j].COIN
            last == iloc_last(frame_of_symbol(s))
        IN  /\ latest_34_of(s).time = last.time
            /\ latest_102_of(s).time = last.time
            /\ coins_data[j].CLOSE = last.close

NonFiniteText(str) ==
    \E sfx \in {<<>>, <<"%">>} :
        str \in {<<"n", "a", "n">> \o sfx, <<"i", "n", "f">> \o sfx, <<"-", "i", "n", "f">> \o sfx}

\* C9: the pass raises nothing and every row displayed has finite EMA values
\* and finite divergence percentages.
C9_FiniteRows ==
    /\ pc # "raised"
    /\ shown.kind = "dataframe" =>
          \A a \in 1..Len(shown.rows) :
              /\ ~NonFiniteText(shown.rows[a].DIFF34)
              /\ ~NonFiniteText(shown.rows[a].DIFF102)
              /\ ~NonFiniteText(shown.rows[a].LINE102)
              /\ IsNum(latest_34_of(shown.rows[a].COIN).EMA)

(***************************************************************************)
(* Properties of price_format                                              *)
(***************************************************************************)
\* The number of characters after the '.' of a formatted number.
RECURSIVE DecimalsOf(_)
DecimalsOf(str) ==
    IF str = <<>> THEN 0
    ELSE IF Head(str) = "." THEN Len(str) - 1
    ELSE DecimalsOf(Tail(str))

\* The precision the thresholds select, each compared with a strict '>'.
ThresholdDecimals(val) ==
    IF GtPow10(val, 1) THEN 2
    ELSE IF GtPow10(val, 2) THEN 4
    ELSE IF GtPow10(val, 4) THEN 6
    ELSE IF GtPow10(val, 6) THEN 8
    ELSE IF GtPow10(val, 8) THEN 10
    ELSE IF GtPow10(val, 10) THEN 12
    ELSE 15

\* C6: a finite number is formatted with the decimals its thresholds select
\* (0.1 with 4, 0.10001 with 2), and everything else gives "N/A".
C6_PrecisionAndNA ==
    fmt_out # <<>> =>
        /\ IsNum(fmt_in) => DecimalsOf(fmt_out) = ThresholdDecimals(fmt_in)
        /\ fmt_in = Dec(1, 1) => DecimalsOf(fmt_out) = 4
        /\ fmt_in = Dec(10001, 5) => DecimalsOf(fmt_out) = 2
        /\ ~IsNum(fmt_in) => fmt_out = <<"N", "/", "A">>

(***************************************************************************)
(* Properties of get_top_500_usdt_pairs_by_volume                          *)
(***************************************************************************)
TickerVolume(item) == to_numeric_coerce(item.volume)

\* The tickers of the response that end with USDT, by position.
Matching == {k \in 1..Len(tickers.items) : EndsWith(tickers.items[k].symbol, USDT)}
MatchingParseable == {k \in Matching : ~IsNaN(TickerVolume(tickers.items[k]))}

\* C5: at most TopN symbols are returned, each ends with USDT, and they are
\* those of the highest volumes: no matching ticker left out has a parseable
\* volume above that of a returned one, and a ticker whose volume cannot be
\* read is returned only when fewer than TopN matching tickers can be read.
C5_TopByVolume ==
    top_out.called =>
        LET out == top_out.pairs
            items == tickers.items
        IN  /\ Len(out) <= TopN
            /\ \A a \in 1..Len(out) : EndsWith(out[a], USDT)
            /\ \E sel \in [1..Len(out) -> Matching] :
                  /\ Injective(sel)
                  /\ \A a \in 1..Len(out) : items[sel[a]].symbol = out[a]
                  /\ \A a \in 1..Len(out) :
                        \A k \in MatchingParseable \ {sel[b] : b \in 1..Len(out)} :
                            /\ sel[a] \in MatchingParseable
                            /\ ~FGt(TickerVolume(items[k]), TickerVolume(items[sel[a]]))
                  /\ \A a \in 1..Len(out) :
                        sel[a] \notin MatchingParseable =>
                            Cardinality(MatchingParseable) < TopN

\* The list is cut: a readable matching ticker is left out.
C5_Witness ==
    /\ top_out.called
    /\ Len(top_out.pairs) = TopN
    /\ Cardinality(MatchingParseable) > TopN
    /\ \E k1, k2 \in MatchingParseable :
          FGt(TickerVolume(tickers.items[k1]), TickerVolume(tickers.items[k2]))

\* A ticker whose volume cannot be read is returned.
C5_WitnessNaN ==
    /\ top_out.called
    /\ Len(top_out.pairs) = TopN
    /\ Cardinality(Matching) > TopN
    /\ Cardinality(MatchingParseable) < TopN

(***************************************************************************)
(* Properties of the EMA column                                            *)
(***************************************************************************)
\* ema[j] = (closes[j] - ema[j-1]) * 2 / (p + 1) + ema[j-1]
Recurrence(close, prev, p) == FAdd(FMul(FSub(close, prev), Num(2, p + 1)), prev)

EmaColumnAligned(frame) ==
    /\ Len(frame) = Len(ema_in)
    /\ \A j \in 1..Len(frame) : frame[j].time = j /\ frame[j].close = ema_in[j]
    /\ FEq(frame[1].EMA, ema_in[1])
    /\ \A j \in 2..Len(frame) :
          FEq(frame[j].EMA, Recurrence(ema_in[j], frame[j - 1].EMA, ema_period))

\* C7: for every period and every non-empty close column the EMA column has
\* the length and the index of the closes, starts at the first close and
\* follows the recurrence.
C7_EveryColumn == ema_out # <<>> => EmaColumnAligned(ema_out[1])

AllFinite(closes) == \A j \in 1..Len(closes) : IsNum(closes[j])

\* What C7_EveryColumn misses is confined to missing and infinite closes: a
\* column of finite closes is aligned and follows the recurrence.
FiniteColumnAligned == ema_out # <<>> /\ AllFinite(ema_in) => EmaColumnAligned(ema_out[1])

FiniteColumnReached ==
    /\ ema_out # <<>>
    /\ AllFinite(ema_in)
    /\ Len(ema_in) >= 3
    /\ ema_period = Period34
    /\ FNe(ema_out[1][3].EMA, ema_in[3])
    /\ FNe(ema_out[1][3].EMA, ema_out[1][2].EMA)

(***************************************************************************)
(* Properties of the cache                                                 *)
(***************************************************************************)
\* The call answered last came before the entry of the pass before it expired.
WithinTTL(call) == call.prev # <<>> /\ call.at < call.prev[1].at + TTL

\* C10: a call made before the entry of the last completed pass is TTL
\* seconds old returns the table of that pass and issues no gateway request,
\* whatever the exchange answers by then; a call made later issues requests.
C10_Memoised ==
    last_call # <<>> =>
        /\ WithinTTL(last_call[1]) =>
              /\ last_call[1].table = last_call[1].prev[1].table
              /\ last_call[1].requests = 0
        /\ ~WithinTTL(last_call[1]) => last_call[1].requests >= 1

\* An empty table, returned because a fetch failed, is served again while the
\* exchange answers with data that would fill the table.
C10_Witness ==
    /\ last_call # <<>>
    /\ WithinTTL(last_call[1])
    /\ last_call[1].at = now
    /\ last_call[1].at > last_call[1].prev[1].at
    /\ last_call[1].table = EmptyDataFrame
    /\ world = 1
    /\ pc = "idle"

\* The entry has expired and the table is computed again from new data.
C10_WitnessRefetch ==
    /\ last_call # <<>>
    /\ last_call[1].prev # <<>>
    /\ last_call[1].at = last_call[1].prev[1].at + TTL
    /\ last_call[1].table # last_call[1].prev[1].table

====
